---- MODULE Spec2Model ----
(***************************************************************************)
(* A model of zmb3/grep (src/grep.go): a literal-pattern line search.      *)
(*                                                                         *)
(* main resolves its file arguments, starts one goroutine that scans every *)
(* source with scanFile and sends each selected line on an unbuffered      *)
(* channel, and drains that channel itself, printing every record; the     *)
(* exit code says whether anything was printed.                            *)
(*                                                                         *)
(* Text.  A Go string is a byte sequence.  It is modelled as the sequence  *)
(* of units that ranging over the string yields: an integer below 128 is   *)
(* an ASCII byte, an integer in 128..255 is a stray byte that belongs to   *)
(* no well-formed UTF-8 sequence, and an integer above 255 is the code     *)
(* point of a well-formed multi-byte sequence.  A source is the sequence   *)
(* of lines bufio.Scanner hands out (no line terminators; every line fits  *)
(* the scanner's buffer).                                                  *)
(***************************************************************************)
EXTENDS Integers, Sequences, FiniteSets, TLC

\* ------------------------------------------------------------- bounds

\* Longest pattern and longest line of the whole-program specification.
MaxLen == 1
\* Longest pattern and longest line of the single-source specification.
MaxScanLen == 2
\* Most lines a source holds.
MaxLines == 2
\* Most file arguments of the whole-program specification.
MaxFiles == 2
\* Most arguments after the pattern in the resolver's specification.
MaxArgs == 2
\* Most directories among those arguments.
MaxDirs == 1
\* Most entries of a directory.
MaxEntries == 2
\* Deepest nesting of directories: an argument and its subdirectories.
MaxDepth == 2

\* The units lines and patterns are made of: 'a', 'A', ' ' and the stray
\* byte 0xFF.
Alphabet == {97, 65, 32, 255}

\* ------------------------------------------------- program constants

exitMatchesFound == 0
exitNoMatches == 1
exitError == 2

\* utf8.RuneError, U+FFFD: what a stray byte decodes to.
RuneError == 65533

\* The text line 190 puts in place of a line that is not valid UTF-8.
BinaryFileMatches ==
    <<66, 105, 110, 97, 114, 121, 32, 70, 105, 108, 101, 32,
      77, 97, 116, 99, 104, 101, 115>>

\* --------------------------------------------------- library functions

\* unicode.IsSpace on the Latin-1 range: \t \n \v \f \r, space, NEL, NBSP.
IsSpace(c) == c \in {9, 10, 11, 12, 13, 32, 133, 160}

\* A stray byte: not part of any well-formed UTF-8 sequence.
IsStray(c) == c \in 128..255

RECURSIVE TrimLeft(_)
TrimLeft(s) ==
    IF s # <<>> /\ IsSpace(Head(s)) THEN TrimLeft(Tail(s)) ELSE s

RECURSIVE TrimRight(_)
TrimRight(s) ==
    IF s # <<>> /\ IsSpace(s[Len(s)])
    THEN TrimRight(SubSeq(s, 1, Len(s) - 1))
    ELSE s

\* strings.TrimSpace: leading and trailing white space removed.  A stray
\* byte decodes to RuneError, which is not white space, and is kept.
TrimSpace(s) == TrimRight(TrimLeft(s))

\* unicode.ToLower on the units of the model, as strings.Map applies it: an
\* ASCII capital becomes its small letter, and a stray byte, which decodes
\* to RuneError, is written back as the well-formed encoding of U+FFFD.
ToLowerRune(c) ==
    IF c \in 65..90 THEN c + 32
    ELSE IF IsStray(c) THEN RuneError
    ELSE c

\* strings.ToLower.
ToLower(s) == [i \in 1..Len(s) |-> ToLowerRune(s[i])]

\* A variant of Contains that looks for substr at offset 0 only.
ContainsAtStart(s, substr) ==
    Len(substr) <= Len(s) /\ SubSeq(s, 1, Len(substr)) = substr

\* strings.Contains: substr occurs in s at some offset.
Contains(s, substr) ==
    \E i \in 0..(Len(s) - Len(substr)) :
        SubSeq(s, i + 1, i + Len(substr)) = substr

\* utf8.ValidString.
ValidString(s) == \A i \in 1..Len(s) : ~IsStray(s[i])

\* ------------------------------------------------- one pass of the loop

\* A variant of Fold that never folds.
FoldNever(s, ic) == s

\* Lines 170-173: with -i both the line and the pattern are lower-cased.
Fold(s, ic) == IF ic THEN ToLower(s) ELSE s

\* A variant of Found that searches for a substring whatever -x says.
FoundSubstring(line, pat, wl) == Contains(line, pat)

\* Lines 177-182: whole-line equality or substring search.
Found(line, pat, wl) == IF wl THEN line = pat ELSE Contains(line, pat)

\* Variants of Selected: one ignores -v, one selects every line under -v.
SelectedIgnoringInvert(found, inv) == found

SelectedOr(found, inv) == found \/ inv

\* Line 185: the decision after inversion.
Selected(found, inv) == found # inv

\* Lines 188-191: the text of the record.
RecordLine(line) ==
    IF ~ValidString(line) THEN BinaryFileMatches ELSE line

\* One iteration of scanFile's loop on the scanned text `text` with the
\* loop's current pattern `pat`: the pattern after the iteration, whether a
\* record is sent, its text, and whether the loop breaks after the send.
ScanLine(text, pat, ic, inv, wl) ==
    LET line    == Fold(TrimSpace(text), ic)
        pattern == Fold(pat, ic)
        sel     == Selected(Found(line, pattern, wl), inv)
    IN  [pattern  |-> pattern,
         selected |-> sel,
         binary   |-> sel /\ ~ValidString(line),
         line     |-> RecordLine(line)]

\* --------------------------------------------------------------- state

VARIABLES
    \* the command line, after flag.Parse, and what it names
    recurse, ignoreCase, invert, wholeLine,  \* -r, -i, -v, -x
    nargs,                          \* flag.NArg()
    pattern,                        \* flag.Arg(0)
    args,                           \* flag.Args()[1:], each with what
                                    \* filepath.Glob finds for it
    stdin,                          \* the lines of standard input
    files,                          \* line 58: the resolved list, each file
                                    \* with its path, whether os.Open
                                    \* succeeds, and its lines
    \* main
    mpc,                            \* where main is
    matchFound,                     \* line 82
    printed,                        \* standard output: the records printed
    exitCode,                       \* the code given to os.Exit, -1 before
    \* the goroutine of lines 63-77
    ppc,                            \* where the goroutine is
    fi,                             \* the range index over files
    cur,                            \* the source scanFile reads: 0 is stdin
    li,                             \* the next line scanner.Scan() yields
    pat,                            \* scanFile's parameter `pattern`
    brk,                            \* the record being sent is the sentinel
    open,                           \* files opened and not yet closed
    \* the channel c
    pending,                        \* the record a blocked send offers
    closed,
    closeCount,                     \* history: how often close(c) ran
    \* history
    sent,                           \* every send: source, line index, record
    printedAt,                      \* source and line index of each printed
    returned                        \* sources whose scanFile call returned

vars ==
    <<recurse, ignoreCase, invert, wholeLine, nargs, pattern, args, stdin, files,
      mpc, matchFound, printed, exitCode,
      ppc, fi, cur, li, pat, brk, open,
      pending, closed, closeCount, sent, printedAt, returned>>

cmdVars == <<recurse, ignoreCase, invert, wholeLine, nargs, pattern, args, stdin>>
argVars == <<cmdVars, files>>
mainVars == <<mpc, matchFound, printed, exitCode, printedAt>>
chanVars == <<pending, closed, closeCount>>

\* ---------------------------------------------------------------- inputs

\* Every sequence over S of length at most n.
SeqsUpTo(S, n) == UNION {[1..k -> S] : k \in 0..n}

Texts(n) == SeqsUpTo(Alphabet, n)

\* A file as os.Open finds it: it fails, or it succeeds and the file has
\* lines.
Sources(n) ==
    {[ok |-> FALSE, lines |-> <<>>]}
        \cup {[ok |-> TRUE, lines |-> l] : l \in SeqsUpTo(Texts(n), MaxLines)}

\* What os.Stat or ioutil.ReadDir reports of a path.  kind is "file" (a
\* regular file, with what os.Open finds), "dir" (a directory, with whether
\* ioutil.ReadDir succeeds on it and its entries in ReadDir's order),
\* "link" (a symbolic link, which only ReadDir reports: os.Stat follows
\* links), "other" (neither), or "error" (os.Stat fails).  name is the path
\* of a glob match and the base name of a directory entry.
Node(kind, name, src, readable, entries) ==
    [kind |-> kind, name |-> name, ok |-> src.ok, lines |-> src.lines,
     readable |-> readable, entries |-> entries]

NoSource == [ok |-> FALSE, lines |-> <<>>]

FileNode(name, src) == Node("file", name, src, FALSE, <<>>)
DirNode(name, readable, entries) == Node("dir", name, NoSource, readable, entries)
PlainNode(kind, name) == Node(kind, name, NoSource, FALSE, <<>>)

\* An argument: filepath.Glob fails on it (err), or finds items, none at all
\* when nothing matches.
Glob(err, items) == [err |-> err, items |-> items]

\* The arguments that name one regular file each: argument i is file fs[i].
FileArgs(fs) ==
    [i \in 1..Len(fs) |-> Glob(FALSE, <<FileNode(<<i>>, fs[i])>>)]

\* The state main is in once flag.Parse has returned.
Start ==
    /\ files = <<>>
    /\ mpc = "start" /\ matchFound = FALSE /\ printed = <<>> /\ exitCode = -1
    /\ ppc = "idle" /\ fi = 0 /\ cur = 0 /\ li = 0 /\ pat = <<>>
    /\ brk = FALSE /\ open = {}
    /\ pending = <<>> /\ closed = FALSE /\ closeCount = 0
    /\ sent = <<>> /\ printedAt = <<>> /\ returned = {}

\* Command lines: no positional argument at all, a pattern alone (standard
\* input is read; its lines and that pattern are the short texts), or a
\* pattern and arguments that name regular files with texts of length at
\* most n.
Inputs(n, maxFiles) ==
    /\ recurse = FALSE
    /\ ignoreCase \in BOOLEAN /\ invert \in BOOLEAN /\ wholeLine \in BOOLEAN
    /\ \/ /\ nargs = 0 /\ pattern = <<>> /\ args = <<>> /\ stdin = <<>>
       \/ /\ nargs = 1 /\ pattern \in Texts(MaxLen) /\ args = <<>>
          /\ stdin \in SeqsUpTo(Texts(MaxLen), MaxLines)
       \/ /\ pattern \in Texts(n) /\ stdin = <<>>
          /\ \E fs \in SeqsUpTo(Sources(n), maxFiles) :
                 /\ fs # <<>>
                 /\ args = FileArgs(fs)
          /\ nargs = 1 + Len(args)

Init == Inputs(MaxLen, MaxFiles) /\ Start

\* One source at most, with longer lines and patterns.
InitScan == Inputs(MaxScanLen, 1) /\ Start

\* ----------------------------------------------------------------- main

\* A variant of Usage that exits with the code of a run without matches.
UsageExitsNoMatches ==
    /\ mpc = "start" /\ nargs < 1
    /\ mpc' = "exited" /\ exitCode' = exitNoMatches
    /\ UNCHANGED <<argVars, matchFound, printed, printedAt,
                   ppc, fi, cur, li, pat, brk, open, chanVars, sent, returned>>

\* Lines 52-56: no pattern, usage and exit code 2.
Usage ==
    /\ mpc = "start" /\ nargs < 1
    /\ mpc' = "exited" /\ exitCode' = exitError
    /\ UNCHANGED <<argVars, matchFound, printed, printedAt,
                   ppc, fi, cur, li, pat, brk, open, chanVars, sent, returned>>

\* path.Join(dir, name).
Join(dir, name) == Append(dir, name)

\* A regular file of the resolved list, under the path it was found at.
Resolved(path, node) == [path |-> path, ok |-> node.ok, lines |-> node.lines]

\* Lines 138-157: the regular files of directory `dir` at `path`, those of
\* its subdirectories included when rec; err when ReadDir fails on it.
RECURSIVE getFilesInDir(_, _, _)
RECURSIVE WalkEntries(_, _, _)

\* Lines 144-155: the loop over the entries of a directory.
WalkEntries(path, entries, rec) ==
    IF entries = <<>> THEN <<>>
    ELSE LET item == Head(entries)
             rest == WalkEntries(path, Tail(entries), rec)
         IN  IF item.kind = "file"
             THEN <<Resolved(Join(path, item.name), item)>> \o rest
             ELSE IF item.kind = "dir" /\ rec
             THEN LET subdir == getFilesInDir(Join(path, item.name), item, TRUE)
                  IN  IF subdir.err THEN rest ELSE subdir.results \o rest
             ELSE rest

getFilesInDir(path, dir, rec) ==
    IF ~dir.readable
    THEN [err |-> TRUE, results |-> <<>>]
    ELSE [err |-> FALSE, results |-> WalkEntries(path, dir.entries, rec)]

\* A variant of ItemFiles that lists a directory whatever the flag, which
\* only decides whether its subdirectories are listed too.
ItemFilesAlways(item, rec) ==
    IF item.kind = "error" THEN <<>>
    ELSE IF item.kind = "file" THEN <<Resolved(item.name, item)>>
    ELSE IF item.kind = "dir"
    THEN LET fs == getFilesInDir(item.name, item, rec)
         IN  IF fs.err THEN <<>> ELSE fs.results
    ELSE <<>>

\* Lines 117-129: what one glob match adds to the list.
ItemFiles(item, rec) ==
    IF item.kind = "error" THEN <<>>
    ELSE IF item.kind = "file" THEN <<Resolved(item.name, item)>>
    ELSE IF item.kind = "dir" /\ rec
    THEN LET fs == getFilesInDir(item.name, item, TRUE)
         IN  IF fs.err THEN <<>> ELSE fs.results
    ELSE <<>>

\* Lines 116-130: the loop over the matches of one glob.
RECURSIVE ItemsFiles(_, _)
ItemsFiles(items, rec) ==
    IF items = <<>> THEN <<>>
    ELSE ItemFiles(Head(items), rec) \o ItemsFiles(Tail(items), rec)

\* Lines 101-133: the files to search, given the arguments after the
\* pattern.
RECURSIVE inputFiles(_, _)
inputFiles(input, rec) ==
    IF input = <<>> THEN <<>>
    ELSE LET glob == Head(input)
             rest == inputFiles(Tail(input), rec)
         IN  IF glob.err \/ glob.items = <<>> THEN rest
             ELSE ItemsFiles(glob.items, rec) \o rest

\* Lines 58-77: the list is resolved, the channel made and the goroutine
\* started.
Go ==
    /\ mpc = "start" /\ nargs >= 1
    /\ files' = inputFiles(args, recurse)
    /\ mpc' = "range" /\ ppc' = "begin"
    /\ UNCHANGED <<cmdVars, matchFound, printed, exitCode, printedAt,
                   fi, cur, li, pat, brk, open, chanVars, sent, returned>>

\* A variant of Println that writes the record twice.
PrintlnTwice(out, m) == Append(Append(out, m), m)

\* A variant of Println that writes before what was written.
PrintlnFront(out, m) == <<m>> \o out

\* fmt.Println(result): one more line on standard output.
Println(out, m) == Append(out, m)

\* Lines 83-88: one iteration of the range over c.  The receive completes
\* the blocked send, and the sender goes on after line 196.
Receive ==
    /\ mpc = "range" /\ pending # <<>>
    /\ matchFound' = TRUE
    /\ printed' = Println(printed, pending[1])
    /\ printedAt' = Append(printedAt, <<sent[Len(sent)].src, sent[Len(sent)].idx>>)
    /\ pending' = <<>>
    /\ ppc' = "scan"
    /\ li' = IF brk THEN li ELSE li + 1
    /\ UNCHANGED <<argVars, mpc, exitCode, fi, cur, pat, brk, open,
                   closed, closeCount, sent, returned>>

\* A variant of DrainDone that ends the range whenever c is empty.
DrainDoneWhenEmpty(isClosed, inFlight) == inFlight = <<>>

\* Line 83: the range ends when c is closed and nothing is left in it.
DrainDone(isClosed, inFlight) == isClosed /\ inFlight = <<>>

\* Line 83: main leaves the range over c.
RangeEnd ==
    /\ mpc = "range" /\ DrainDone(closed, pending)
    /\ mpc' = "exit"
    /\ UNCHANGED <<argVars, matchFound, printed, exitCode, printedAt,
                   ppc, fi, cur, li, pat, brk, open, chanVars, sent, returned>>

\* A variant of ExitStatus with the two codes exchanged.
ExitStatusSwapped(found) == IF found THEN exitNoMatches ELSE exitMatchesFound

\* Lines 90-95: the exit code.
ExitStatus(found) == IF found THEN exitMatchesFound ELSE exitNoMatches

\* Lines 90-96: os.Exit ends the process, the goroutine with it.
Exit ==
    /\ mpc = "exit"
    /\ exitCode' = ExitStatus(matchFound)
    /\ mpc' = "exited"
    /\ UNCHANGED <<argVars, matchFound, printed, printedAt,
                   ppc, fi, cur, li, pat, brk, open, chanVars, sent, returned>>

\* ------------------------------------------------------- the goroutine

Running == mpc # "exited"

\* The lines of the source scanFile is reading.
CurLines == IF cur = 0 THEN stdin ELSE files[cur].lines

\* Lines 64-67: standard input when the list is empty, else the files.
Begin ==
    /\ Running /\ ppc = "begin"
    /\ IF Len(files) = 0
       THEN /\ ppc' = "scan" /\ cur' = 0 /\ li' = 1 /\ pat' = pattern
            /\ brk' = FALSE /\ fi' = fi
       ELSE /\ ppc' = "loop" /\ fi' = 1
            /\ UNCHANGED <<cur, li, pat, brk>>
    /\ UNCHANGED <<argVars, mainVars, open, chanVars, sent, returned>>

\* A variant of OpenFail that leaves the loop instead of continuing it.
OpenFailBreaks ==
    /\ Running /\ ppc = "loop" /\ fi <= Len(files) /\ ~files[fi].ok
    /\ ppc' = "close"
    /\ UNCHANGED <<argVars, mainVars, fi, cur, li, pat, brk, open,
                   chanVars, sent, returned>>

\* Lines 68-71: os.Open fails and the loop continues with the next file.
OpenFail ==
    /\ Running /\ ppc = "loop" /\ fi <= Len(files) /\ ~files[fi].ok
    /\ fi' = fi + 1
    /\ UNCHANGED <<argVars, mainVars, ppc, cur, li, pat, brk, open,
                   chanVars, sent, returned>>

\* Lines 68-73: the file is opened, its Close deferred to the end of the
\* goroutine, and scanFile called with flag.Arg(0).
OpenScan ==
    /\ Running /\ ppc = "loop" /\ fi <= Len(files) /\ files[fi].ok
    /\ open' = open \cup {fi}
    /\ ppc' = "scan" /\ cur' = fi /\ li' = 1 /\ pat' = pattern /\ brk' = FALSE
    /\ UNCHANGED <<argVars, mainVars, fi, chanVars, sent, returned>>

\* Lines 166-203: one iteration of scanFile's loop on a line that is not
\* selected.
ScanSkip ==
    /\ Running /\ ppc = "scan" /\ ~brk /\ li <= Len(CurLines)
    /\ LET r == ScanLine(CurLines[li], pat, ignoreCase, invert, wholeLine)
       IN  /\ ~r.selected
           /\ pat' = r.pattern
           /\ li' = li + 1
    /\ UNCHANGED <<argVars, mainVars, ppc, fi, cur, brk, open,
                   chanVars, sent, returned>>

\* A variant of ScanSend on a channel with a buffer: the send does not
\* block and the loop goes on.
ScanSendBuffered ==
    /\ Running /\ ppc = "scan" /\ ~brk /\ li <= Len(CurLines)
    /\ LET r == ScanLine(CurLines[li], pat, ignoreCase, invert, wholeLine)
           m == [file |-> cur, line |-> r.line]
       IN  /\ r.selected
           /\ pat' = r.pattern
           /\ brk' = r.binary
           /\ pending' = Append(pending, m)
           /\ sent' = Append(sent, [src |-> cur, idx |-> li, rec |-> m])
    /\ li' = IF brk' THEN li ELSE li + 1
    /\ UNCHANGED <<argVars, mainVars, ppc, fi, cur, open,
                   closed, closeCount, returned>>

\* Lines 166-196: one iteration on a selected line, up to the send, which
\* blocks until main receives.
ScanSend ==
    /\ Running /\ ppc = "scan" /\ ~brk /\ li <= Len(CurLines)
    /\ LET r == ScanLine(CurLines[li], pat, ignoreCase, invert, wholeLine)
           m == [file |-> cur, line |-> r.line]
       IN  /\ r.selected
           /\ pat' = r.pattern
           /\ brk' = r.binary
           /\ pending' = <<m>>
           /\ sent' = Append(sent, [src |-> cur, idx |-> li, rec |-> m])
    /\ ppc' = "send"
    /\ UNCHANGED <<argVars, mainVars, fi, cur, li, open,
                   closed, closeCount, returned>>

\* Lines 199-204 and 166: scanFile returns, after the sentinel or at the end
\* of the input; the goroutine goes on to the next file, or to close(c).
ScanReturn ==
    /\ Running /\ ppc = "scan" /\ (brk \/ li > Len(CurLines))
    /\ returned' = returned \cup {cur}
    /\ brk' = FALSE
    /\ IF cur = 0
       THEN ppc' = "close" /\ fi' = fi
       ELSE ppc' = "loop" /\ fi' = fi + 1
    /\ UNCHANGED <<argVars, mainVars, cur, li, pat, open, chanVars, sent>>

\* Line 67: the range over files is exhausted.
LoopEnd ==
    /\ Running /\ ppc = "loop" /\ fi > Len(files)
    /\ ppc' = "close"
    /\ UNCHANGED <<argVars, mainVars, fi, cur, li, pat, brk, open,
                   chanVars, sent, returned>>

\* A variant of Close that forgets to close the channel.
CloseForgotten ==
    /\ Running /\ ppc = "close"
    /\ ppc' = "defer"
    /\ UNCHANGED <<argVars, mainVars, fi, cur, li, pat, brk, open,
                   chanVars, sent, returned>>

\* Line 76.
Close ==
    /\ Running /\ ppc = "close"
    /\ closed' = TRUE /\ closeCount' = closeCount + 1
    /\ ppc' = "defer"
    /\ UNCHANGED <<argVars, mainVars, fi, cur, li, pat, brk, open,
                   pending, sent, returned>>

\* Line 77: the goroutine's function returns and its deferred Closes run.
Return ==
    /\ Running /\ ppc = "defer"
    /\ open' = {}
    /\ ppc' = "done"
    /\ UNCHANGED <<argVars, mainVars, fi, cur, li, pat, brk,
                   chanVars, sent, returned>>

Next ==
    \/ Usage \/ Go \/ Receive \/ RangeEnd \/ Exit
    \/ Begin \/ OpenFail \/ OpenScan \/ ScanSkip \/ ScanSend \/ ScanReturn
    \/ LoopEnd \/ Close \/ Return

Spec == Init /\ [][Next]_vars

SpecScan == InitScan /\ [][Next]_vars

\* The steps of main and those of the goroutine.  A receive is a step of
\* both.
Main == Usage \/ Go \/ Receive \/ RangeEnd \/ Exit

Producer ==
    \/ Begin \/ OpenFail \/ OpenScan \/ ScanSkip \/ ScanSend \/ ScanReturn
    \/ LoopEnd \/ Close \/ Return \/ Receive

\* The Go scheduler runs every goroutine that can run: main and the
\* goroutine each take a step that stays possible.
\* The runs without -x: the flag only changes which lines are selected, and
\* lines of both sorts occur without it.
InitLive == Init /\ ~wholeLine

SpecLive == InitLive /\ [][Next]_vars /\ WF_vars(Main) /\ WF_vars(Producer)

\* ------------------------------------------- inputs of the resolver

\* A regular file that opens, with one line that holds the pattern 'a'.
Matching == [ok |-> TRUE, lines |-> <<<<97>>>>]

\* What ioutil.ReadDir may report of a directory with at most d levels of
\* directories below it: regular files, symbolic links and, while d > 0,
\* subdirectories that ReadDir succeeds on or fails on.  The entry at
\* position k has the base name k.
RECURSIVE DirContents(_)
DirContents(d) ==
    LET leaf == {FileNode(0, Matching), PlainNode("link", 0)}
        sub  == IF d = 0 THEN {}
                ELSE {DirNode(0, r, es) :
                          r \in BOOLEAN, es \in DirContents(d - 1)}
    IN  {[k \in 1..Len(es) |-> [es[k] EXCEPT !.name = k]] :
             es \in SeqsUpTo(leaf \cup sub, MaxEntries)}

\* What os.Stat may report of a glob match that is no directory: a regular
\* file that opens or does not, an error, or something else.
PlainItems ==
    {FileNode(<<>>, Matching), FileNode(<<>>, NoSource),
     PlainNode("error", <<>>), PlainNode("other", <<>>)}

DirItems ==
    {DirNode(<<>>, r, es) : r \in BOOLEAN, es \in DirContents(MaxDepth - 1)}

\* An argument that filepath.Glob fails on, one that matches nothing, and
\* those that match one path.
Globs(items) == {Glob(FALSE, <<it>>) : it \in items}

PlainGlobs == {Glob(TRUE, <<>>), Glob(FALSE, <<>>)} \cup Globs(PlainItems)

IsDirGlob(g) == g.items # <<>> /\ g.items[1].kind = "dir"

\* The match of argument i has the path <<i>>.
Named(a) ==
    [i \in DOMAIN a |->
        IF a[i].items = <<>> THEN a[i]
        ELSE Glob(FALSE, <<[a[i].items[1] EXCEPT !.name = <<i>>]>>)]

ArgLists ==
    {Named(a) : a \in
        {b \in SeqsUpTo(PlainGlobs \cup Globs(DirItems), MaxArgs) :
            Cardinality({i \in DOMAIN b : IsDirGlob(b[i])}) <= MaxDirs}}

\* Command lines with -r or without: no positional argument, or the pattern
\* 'a' and arguments of every sort, none included; standard input holds a
\* line without the pattern and one with it.
InitResolve ==
    /\ recurse \in BOOLEAN
    /\ ignoreCase = FALSE /\ invert = FALSE /\ wholeLine = FALSE
    /\ \/ /\ nargs = 0 /\ pattern = <<>> /\ args = <<>> /\ stdin = <<>>
       \/ /\ pattern = <<97>> /\ stdin = <<<<65>>, <<97>>>>
          /\ args \in ArgLists
          /\ nargs = 1 + Len(args)
    /\ Start

SpecResolve == InitResolve /\ [][Next]_vars

\* ------------------------------------------------- scanFile as a function

\* Lines 163-205: the records one call of scanFile sends, scanning `lines`
\* from line i on with the pattern `p`: each with the index of its line and
\* whether it is the sentinel the loop breaks after.
RECURSIVE ScanFrom(_, _, _, _, _, _)
ScanFrom(lines, i, p, ic, inv, wl) ==
    IF i > Len(lines) THEN <<>>
    ELSE LET r == ScanLine(lines[i], p, ic, inv, wl)
         IN  IF ~r.selected THEN ScanFrom(lines, i + 1, r.pattern, ic, inv, wl)
             ELSE <<[idx |-> i, line |-> r.line, binary |-> r.binary]>>
                  \o (IF r.binary THEN <<>>
                      ELSE ScanFrom(lines, i + 1, r.pattern, ic, inv, wl))

scanFile(lines, p, ic, inv, wl) == ScanFrom(lines, 1, p, ic, inv, wl)

\* ------------------------------------------------- vocabulary of the claims

\* The lines of source f: 0 is standard input.
SrcLines(f) == IF f = 0 THEN stdin ELSE files[f].lines

LineNos(f) == 1..Len(SrcLines(f))

\* The sends made for line j of source f.
SendsAt(f, j) == {k \in 1..Len(sent) : sent[k].src = f /\ sent[k].idx = j}

\* A record was emitted for line j of source f.
EmittedAt(f, j) == SendsAt(f, j) # {}

\* p is a contiguous substring of l: l is some text, then p, then some text.
IsSubstring(p, l) ==
    \E i \in 0..Len(l) : \E j \in i..Len(l) :
        l = SubSeq(l, 1, i) \o p \o SubSeq(l, j + 1, Len(l))

\* The match decision of the specification for line l and pattern p.
Decision(l, p, ic, inv, wl) ==
    LET line == IF ic THEN ToLower(TrimSpace(l)) ELSE TrimSpace(l)
        pt   == IF ic THEN ToLower(p) ELSE p
        raw  == IF wl THEN line = pt ELSE IsSubstring(pt, line)
    IN  raw # inv

\* The scan of source f stopped at a line before line j: that line was sent
\* as the sentinel.
StoppedBefore(f, j) ==
    \E k \in 1..Len(sent) :
        /\ sent[k].src = f /\ sent[k].idx < j
        /\ sent[k].rec.line = BinaryFileMatches

\* The state machine sends, for every source whose scan returned, what
\* scanFile computes as a function.
ScanAgrees ==
    \A f \in returned :
        LET mine == {k \in 1..Len(sent) : sent[k].src = f}
            out  == scanFile(SrcLines(f), pattern, ignoreCase, invert, wholeLine)
        IN  /\ Cardinality(mine) = Len(out)
            /\ \A n \in 1..Len(out) :
                   \E k \in mine : /\ sent[k].idx = out[n].idx
                                   /\ sent[k].rec.line = out[n].line

\* ----------------------------------------------------------------- claims

CaseSensitiveSubstring == ~wholeLine /\ ~invert /\ ~ignoreCase

\* C1 as stated: in substring mode, case-sensitive and not inverted, every
\* line of every scanned source has a record iff the pattern is a
\* contiguous substring of the trimmed line.
C1_SubstringEveryLine ==
    CaseSensitiveSubstring =>
        \A f \in returned : \A j \in LineNos(f) :
            EmittedAt(f, j) <=> IsSubstring(pattern, TrimSpace(SrcLines(f)[j]))

\* C1 (amended): in substring mode, case-sensitive and not inverted, every
\* line of a scanned source that is not preceded in that source by a line
\* sent as the binary sentinel has a record iff the pattern is a contiguous
\* substring of the trimmed line.
C1_SubstringIff ==
    CaseSensitiveSubstring =>
        \A f \in returned : \A j \in LineNos(f) :
            ~StoppedBefore(f, j) =>
                (EmittedAt(f, j)
                     <=> IsSubstring(pattern, TrimSpace(SrcLines(f)[j])))

\* A source of two lines was scanned in that mode: the first line, which
\* trimming changes, has a record and the second has none.
C1_Witness ==
    /\ CaseSensitiveSubstring
    /\ \E f \in returned :
           /\ Len(SrcLines(f)) = 2
           /\ TrimSpace(SrcLines(f)[1]) # SrcLines(f)[1]
           /\ pattern # <<>>
           /\ EmittedAt(f, 1) /\ ~EmittedAt(f, 2)

\* The records the run with the invert flag flipped sends for source f.
Flipped(f) == scanFile(SrcLines(f), pattern, ignoreCase, ~invert, wholeLine)

FlippedEmittedAt(f, j) ==
    \E n \in 1..Len(Flipped(f)) : Flipped(f)[n].idx = j

FlippedStoppedBefore(f, j) ==
    \E n \in 1..Len(Flipped(f)) : Flipped(f)[n].idx < j /\ Flipped(f)[n].binary

\* C2 as stated: in every configuration the lines a run reports for a
\* source and the lines the run with invert flipped reports for it are
\* complements within the lines of the source.
C2_ComplementEveryLine ==
    \A f \in returned : \A j \in LineNos(f) :
        EmittedAt(f, j) <=> ~FlippedEmittedAt(f, j)

\* C2 (amended): in every configuration, on the lines of a source that both
\* runs scan (no earlier line was sent as the binary sentinel by either
\* run), the run with invert flipped reports exactly the lines this run
\* does not report.
C2_Complement ==
    \A f \in returned : \A j \in LineNos(f) :
        (~StoppedBefore(f, j) /\ ~FlippedStoppedBefore(f, j)) =>
            (EmittedAt(f, j) <=> ~FlippedEmittedAt(f, j))

\* An inverted whole-line, case-insensitive scan of two lines reported one
\* line, and the run without invert reports the other.
C2_Witness ==
    /\ invert /\ wholeLine /\ ignoreCase
    /\ \E f \in returned :
           /\ Len(SrcLines(f)) = 2
           /\ EmittedAt(f, 1) /\ ~EmittedAt(f, 2)
           /\ ~FlippedEmittedAt(f, 1) /\ FlippedEmittedAt(f, 2)

\* The case folding -i applies before the comparison.
Folded(s) == IF ignoreCase THEN ToLower(s) ELSE s

\* C3 as stated: in whole-line mode without invert, every line of every
\* scanned source has a record iff the trimmed line equals the pattern,
\* both case-folded under -i.
C3_WholeLineEveryLine ==
    (wholeLine /\ ~invert) =>
        \A f \in returned : \A j \in LineNos(f) :
            EmittedAt(f, j)
                <=> Folded(TrimSpace(SrcLines(f)[j])) = Folded(pattern)

\* C3 (amended): in whole-line mode without invert, every line of a scanned
\* source that is not preceded in that source by a line sent as the binary
\* sentinel has a record iff the trimmed line equals the pattern, both
\* case-folded under -i.
C3_WholeLineIff ==
    (wholeLine /\ ~invert) =>
        \A f \in returned : \A j \in LineNos(f) :
            ~StoppedBefore(f, j) =>
                (EmittedAt(f, j)
                     <=> Folded(TrimSpace(SrcLines(f)[j])) = Folded(pattern))

\* A whole-line, case-insensitive scan reported a line that differs from
\* the pattern in case and in surrounding white space, and passed over a
\* line that only contains the pattern.
C3_Witness ==
    /\ wholeLine /\ ~invert /\ ignoreCase
    /\ \E f \in returned :
           /\ Len(SrcLines(f)) = 2
           /\ SrcLines(f)[1] # pattern
           /\ EmittedAt(f, 1) /\ ~EmittedAt(f, 2)
           /\ Len(SrcLines(f)[2]) > Len(pattern)
           /\ IsSubstring(pattern, SrcLines(f)[2])
           /\ pattern # <<>>

\* C4: with -i, the text of every record is the trimmed input line with its
\* case as read (stated for lines that are valid text, which no sentinel
\* replaces).
C4_CasePreserved ==
    ignoreCase =>
        \A k \in 1..Len(sent) :
            LET l == SrcLines(sent[k].src)[sent[k].idx]
            IN  ValidString(l) => sent[k].rec.line = TrimSpace(l)

\* unicode.ToUpper and unicode.ToLower on an ASCII letter, the other case.
FlipRune(c) ==
    IF c \in 65..90 THEN c + 32
    ELSE IF c \in 97..122 THEN c - 32
    ELSE c

\* The text s with the case of every letter changed.
CaseFlip(s) == [i \in 1..Len(s) |-> FlipRune(s[i])]

BinaryHits(f) ==
    {j \in LineNos(f) :
        /\ ~ValidString(SrcLines(f)[j])
        /\ Decision(SrcLines(f)[j], pattern, ignoreCase, invert, wholeLine)}

\* C6: when a scanned source has a line that is not valid text and that the
\* match decision selects, exactly one record of that source has the
\* sentinel text, it is the record of the first such line, and no later
\* line of that source has a record.
C6_BinarySentinel ==
    \A f \in returned :
        BinaryHits(f) # {} =>
            LET j == CHOOSE m \in BinaryHits(f) :
                         \A n \in BinaryHits(f) : m <= n
                S == {k \in 1..Len(sent) :
                         /\ sent[k].src = f
                         /\ sent[k].rec.line = BinaryFileMatches}
            IN  /\ Cardinality(S) = 1
                /\ \A k \in S : sent[k].idx = j
                /\ \A k \in 1..Len(sent) :
                       sent[k].src = f => sent[k].idx <= j

\* C9 as stated: in every configuration, every line of a scanned source
\* that the match decision selects has exactly one record and every other
\* line has none.
C9_OneRecordEveryLine ==
    \A f \in returned : \A j \in LineNos(f) :
        Cardinality(SendsAt(f, j)) =
            IF Decision(SrcLines(f)[j], pattern, ignoreCase, invert, wholeLine)
            THEN 1 ELSE 0

\* C9 (amended): in every configuration, every line of a scanned source
\* that is not preceded in that source by a line sent as the binary
\* sentinel has exactly one record if the match decision selects it and
\* none otherwise; a line after the sentinel has none.
C9_OneRecordPerLine ==
    \A f \in returned : \A j \in LineNos(f) :
        Cardinality(SendsAt(f, j)) =
            IF /\ ~StoppedBefore(f, j)
               /\ Decision(SrcLines(f)[j], pattern, ignoreCase, invert, wholeLine)
            THEN 1 ELSE 0

\* A scanned source of two lines, both selected: each has its one record.
C9_Witness ==
    \E f \in returned :
        /\ Len(SrcLines(f)) = 2
        /\ Len(sent) >= 2
        /\ Cardinality(SendsAt(f, 1)) = 1 /\ Cardinality(SendsAt(f, 2)) = 1
        /\ SrcLines(f)[1] # SrcLines(f)[2]

\* C7: once a run with at least one positional argument has exited, its
\* exit code is 0 if a record was printed and 1, with nothing on standard
\* output, otherwise; files that failed to open change nothing in this.
C7_ExitCode ==
    (mpc = "exited" /\ nargs >= 1) =>
        /\ exitCode \in {exitMatchesFound, exitNoMatches}
        /\ exitCode = exitMatchesFound <=> printed # <<>>
        /\ exitCode = exitNoMatches <=> printed = <<>>

\* A run over two files exited with code 0 although the first file failed
\* to open: the second one had a reported line.
C7_Witness ==
    /\ mpc = "exited" /\ exitCode = exitMatchesFound
    /\ Len(files) = 2 /\ ~files[1].ok /\ files[2].ok
    /\ Len(printed) >= 1

\* <<f, i>> comes before <<g, j>>: an earlier source, or the same source
\* and an earlier line.
ComesBefore(a, b) == a[1] < b[1] \/ (a[1] = b[1] /\ a[2] < b[2])

\* C8: the records on standard output are in order: each is the record of
\* the source it names, records of one source are in line order, and every
\* record of an earlier source of the list precedes every record of a later
\* one.
C8_Ordered ==
    /\ Len(printedAt) = Len(printed)
    /\ \A a \in 1..Len(printed) : printed[a].file = printedAt[a][1]
    /\ \A a \in 1..Len(printed) : \A b \in 1..Len(printed) :
           a < b => ComesBefore(printedAt[a], printedAt[b])

\* Three records were printed, of two lines of the first file and one of
\* the second.
C8_Witness ==
    /\ Len(printed) >= 3
    /\ printedAt[1][1] = 1 /\ printedAt[2][1] = 1 /\ printedAt[3][1] = 2

\* Every source of the run has been dealt with: standard input was scanned,
\* or every file of the list that opens was.
AllScanned ==
    IF Len(files) = 0
    THEN returned = {0}
    ELSE /\ returned = {i \in 1..Len(files) : files[i].ok}
         /\ fi > Len(files)

\* C10: the channel is closed at most once and only when the scan of the
\* last source has returned; once it is closed nothing is sent and it is
\* not closed again; and main leaves its range over the channel only when
\* the channel is closed and every record sent has been printed.
C10_CloseOnce ==
    /\ [](/\ closeCount <= 1
          /\ closed <=> closeCount = 1
          /\ closed => (AllScanned /\ pending = <<>>))
    /\ [][/\ closed => (closed' /\ sent' = sent /\ closeCount' = closeCount)
          /\ (mpc = "range" /\ mpc' # "range")
                => (closed /\ pending = <<>> /\ Len(printed) = Len(sent))]_vars

\* The channel was closed after two files were scanned and a record of each
\* was printed, and main has left its range.
C10_Witness ==
    /\ closed /\ mpc = "exit"
    /\ Len(files) = 2 /\ returned = {1, 2}
    /\ Len(printed) >= 2 /\ printedAt[1][1] = 1

\* The records sent so far, in the order of the sends.
SentRecords == [k \in 1..Len(sent) |-> sent[k].rec]

\* C11: what is printed is at every moment the records sent, in order, but
\* possibly the last one; and once main has left its range over the
\* channel, so before and when the exit status is computed, every record
\* sent has been printed exactly once.
C11_AllPrintedOnce ==
    /\ Len(printed) <= Len(sent)
    /\ printed = SubSeq(SentRecords, 1, Len(printed))
    /\ (mpc \in {"exit", "exited"} /\ nargs >= 1) => printed = SentRecords

\* A run has exited after three records were sent and printed.
C11_Witness ==
    /\ mpc = "exited" /\ exitCode = exitMatchesFound
    /\ Len(sent) >= 3 /\ Len(printed) = Len(sent)

\* C13: a file is closed when its scan returns and before the next one is
\* opened, so at most one file is open at any time.
C13_ClosedAfterScan ==
    /\ Cardinality(open) <= 1
    /\ \A f \in returned : f \notin open

\* The files of the list before position i that open.
OpenableBefore(i) == {j \in 1..(i - 1) : files[j].ok}

\* C14: a file that fails to open has no record, and the run goes on: once
\* the run has exited every file that opens, those after a failing one
\* included, has been scanned and has the records scanFile computes for it,
\* all of them printed; and the exit code is 0 iff one of the files that
\* open has a record.
C14_OpenFailureSkipped ==
    /\ \A k \in 1..Len(sent) :
           sent[k].src # 0 => files[sent[k].src].ok
    /\ (mpc = "exited" /\ nargs >= 1 /\ files # <<>>) =>
           /\ returned = {i \in 1..Len(files) : files[i].ok}
           /\ \A i \in returned :
                  Cardinality({k \in 1..Len(printed) : printed[k].file = i})
                      = Len(scanFile(files[i].lines, pattern,
                                     ignoreCase, invert, wholeLine))
           /\ exitCode = exitMatchesFound
                  <=> \E i \in 1..Len(files) :
                          /\ files[i].ok
                          /\ scanFile(files[i].lines, pattern,
                                      ignoreCase, invert, wholeLine) # <<>>

\* A run has exited with code 0: its first file failed to open, and its
\* second was scanned and a record of it printed.
C14_Witness ==
    /\ mpc = "exited" /\ exitCode = exitMatchesFound
    /\ Len(files) = 2 /\ ~files[1].ok /\ files[2].ok
    /\ returned = {2}
    /\ printed # <<>> /\ printed[1].file = 2

\* C16: without a positional argument main exits with code 2 and has done
\* nothing else: no list was resolved, no goroutine started, no file
\* opened, nothing scanned, sent or printed.
C16_UsageExit ==
    nargs < 1 =>
        /\ mpc \in {"start", "exited"}
        /\ mpc = "exited" => exitCode = exitError
        /\ ppc = "idle" /\ files = <<>> /\ open = {} /\ returned = {}
        /\ sent = <<>> /\ pending = <<>> /\ printed = <<>> /\ ~closed

\* A run without a positional argument has exited.
C16_Witness == nargs = 0 /\ mpc = "exited" /\ exitCode = exitError

\* C20: a record that was sent and is not yet printed is the one the
\* goroutine is blocked sending, so there is at most one; while it is
\* blocked the scanner reads no further line and sends nothing; and the
\* block ends with main receiving that record.
C20_Rendezvous ==
    /\ [](/\ Len(sent) - Len(printed) \in {0, 1}
          /\ Len(sent) > Len(printed) <=> ppc = "send"
          /\ ppc = "send" <=> pending # <<>>
          /\ pending # <<>> => pending = <<sent[Len(sent)].rec>>)
    /\ [][ppc = "send" =>
              \/ /\ ppc' = "send" /\ li' = li /\ sent' = sent
                 /\ pending' = pending
              \/ /\ ppc' # "send" /\ pending' = <<>>
                 /\ printed' = Append(printed, pending[1])]_vars

\* A record of the first line of a source is printed while the scan of that
\* source is at its second line.
C20_Witness ==
    /\ ppc = "scan" /\ cur \notin returned /\ li = 2 /\ li <= Len(CurLines)
    /\ printed # <<>> /\ printed[Len(printed)].file = cur
    /\ printedAt[Len(printedAt)] = <<cur, 1>>

\* C12: no state is a deadlock (until main has exited some step is
\* possible), and under fair scheduling of main and the goroutine every run
\* ends with an exit code: no send and no receive blocks for ever.
C12_Terminates ==
    /\ [](mpc # "exited" => ENABLED Next)
    /\ <>(mpc = "exited" /\ exitCode \in {0, 1, 2})

\* A run has exited whose first file failed to open and whose second was
\* left at the binary sentinel, before its last line.
C12_Witness ==
    /\ mpc = "exited"
    /\ Len(files) = 2 /\ ~files[1].ok /\ files[2].ok
    /\ Len(files[2].lines) = 2
    /\ sent # <<>> /\ sent[Len(sent)].rec.line = BinaryFileMatches
    /\ sent[Len(sent)].idx = 1

\* C18: the short-circuit follows the decision after inversion.  A line
\* that is not valid text and is not selected has no record and does not
\* stop the scan: the next line has a record iff it is selected.  With -v a
\* line that is not valid text and is selected has the sentinel as its
\* record, and no later line of the source has a record.
C18_ShortCircuitAfterInversion ==
    \A f \in returned : \A j \in LineNos(f) :
        LET l   == SrcLines(f)[j]
            sel == Decision(l, pattern, ignoreCase, invert, wholeLine)
        IN  (~ValidString(l) /\ ~StoppedBefore(f, j)) =>
                /\ ~sel =>
                       /\ ~EmittedAt(f, j)
                       /\ (j + 1) \in LineNos(f) =>
                              (EmittedAt(f, j + 1)
                                   <=> Decision(SrcLines(f)[j + 1], pattern,
                                                ignoreCase, invert, wholeLine))
                /\ (invert /\ sel) =>
                       /\ \A k \in SendsAt(f, j) :
                              sent[k].rec.line = BinaryFileMatches
                       /\ EmittedAt(f, j)
                       /\ \A k \in 1..Len(sent) :
                              sent[k].src = f => sent[k].idx <= j

\* C19: in every configuration, -i included, a record of a line that as
\* read is not valid text carries the sentinel, and no later line of that
\* source has a record.
C19_BinaryAsRead ==
    \A k \in 1..Len(sent) :
        ~ValidString(SrcLines(sent[k].src)[sent[k].idx]) =>
            /\ sent[k].rec.line = BinaryFileMatches
            /\ \A n \in 1..Len(sent) :
                   sent[n].src = sent[k].src => sent[n].idx <= sent[k].idx

\* The paths of the resolved list.
Paths == {files[k].path : k \in 1..Len(files)}

\* The paths of the list that lie under the match of argument i.
PathsUnder(i) == {p \in Paths : p[1] = i}

\* Every regular file under directory `dir` at `path`, at any depth.
RECURSIVE RegularUnder(_, _)
RegularUnder(path, dir) ==
    UNION {IF dir.entries[k].kind = "file"
           THEN {path \o <<dir.entries[k].name>>}
           ELSE IF dir.entries[k].kind = "dir"
           THEN RegularUnder(path \o <<dir.entries[k].name>>, dir.entries[k])
           ELSE {} : k \in 1..Len(dir.entries)}

\* Those of them that can be listed: no directory from `dir` down to the
\* file is one that cannot be read.
RECURSIVE ListableUnder(_, _)
ListableUnder(path, dir) ==
    IF ~dir.readable THEN {}
    ELSE UNION {IF dir.entries[k].kind = "file"
                THEN {path \o <<dir.entries[k].name>>}
                ELSE IF dir.entries[k].kind = "dir"
                THEN ListableUnder(path \o <<dir.entries[k].name>>,
                                   dir.entries[k])
                ELSE {} : k \in 1..Len(dir.entries)}

\* The arguments that match something, those that match a directory and
\* those that match a regular file.
Matched == {i \in 1..Len(args) : ~args[i].err /\ args[i].items # <<>>}
DirArgs == {i \in Matched : args[i].items[1].kind = "dir"}
RegularArgs == {i \in Matched : args[i].items[1].kind = "file"}

\* Standard input is being scanned or has been.
StdinScanned == 0 \in returned \/ (cur = 0 /\ ppc \in {"scan", "send"})

\* C15: standard input is scanned iff no argument follows the pattern; when
\* arguments follow it and the resolver skips them all, standard input is
\* not read and no source is scanned.
C15_StdinOnlyWithoutArgs ==
    /\ StdinScanned => args = <<>>
    /\ (mpc = "exited" /\ nargs >= 1 /\ args = <<>>) => 0 \in returned
    /\ (mpc = "exited" /\ args # <<>> /\ files = <<>>) => returned = {}

\* What C17 says of the regular files: each argument that is a regular file
\* is in the list once, with -r or without, and they are in the order of
\* the arguments.
RegularInOrder ==
    /\ \A i \in RegularArgs :
           Cardinality({k \in 1..Len(files) : files[k].path = <<i>>}) = 1
    /\ \A i, j \in RegularArgs : \A k, l \in 1..Len(files) :
           (i < j /\ files[k].path = <<i>> /\ files[l].path = <<j>>) => k < l

\* C17 as stated: once the list is resolved, with -r a directory argument
\* gives every regular file under it at any depth and nothing else, without
\* -r it gives nothing, and the regular files are in argument order.
C17_EveryFileAtAnyDepth ==
    mpc # "start" =>
        /\ \A i \in DirArgs :
               PathsUnder(i) = IF recurse
                               THEN RegularUnder(<<i>>, args[i].items[1])
                               ELSE {}
        /\ RegularInOrder

\* C17, amended: once the list is resolved, with -r a directory argument
\* gives every regular file under it that no unreadable directory hides, at
\* any depth, and nothing else (no directory, no symbolic link); without -r
\* it gives nothing; the regular files are in argument order, with -r or
\* without.
C17_EveryListableFile ==
    mpc # "start" =>
        /\ \A i \in DirArgs :
               PathsUnder(i) = IF recurse
                               THEN ListableUnder(<<i>>, args[i].items[1])
                               ELSE {}
        /\ RegularInOrder

\* -r, a regular file f and then a directory d that holds the file a and
\* the subdirectory sub, which holds a link and the file b: the list is f,
\* d/a, d/sub/b.
C17_Witness ==
    /\ mpc = "exited" /\ recurse
    /\ Len(args) = 2 /\ RegularArgs = {1} /\ DirArgs = {2}
    /\ LET d == args[2].items[1]
       IN  /\ d.readable /\ Len(d.entries) = 2
           /\ d.entries[1].kind = "file"
           /\ d.entries[2].kind = "dir" /\ d.entries[2].readable
           /\ Len(d.entries[2].entries) = 2
           /\ d.entries[2].entries[1].kind = "link"
           /\ d.entries[2].entries[2].kind = "file"
    /\ [k \in 1..Len(files) |-> files[k].path] = <<<<1>>, <<2, 1>>, <<2, 2, 2>>>>

====
